---- MODULE Spec2Model ----
(***************************************************************************)
(* SSA transformation of miasm2 (miasm2/analysis/ssa.py): the classes SSA, *)
(* SSABlock, SSAPath and SSADiGraph as a state machine.                    *)
(*                                                                         *)
(* An expression is a sequence of tokens in prefix order.  A token is a    *)
(* record [k, n, v, a, s]: kind, name, version path, arity (or value of an *)
(* integer) and size.  ExprId(("x", 3), 32) is the one-token expression    *)
(* whose token has n = "x" and v = <<3>>; a name that is renamed again     *)
(* nests, (("x", 3), 0), and has v = <<3, 0>>.                             *)
(***************************************************************************)
EXTENDS Naturals, Sequences, FiniteSets, TLC

VARIABLES
    cls,            \* class of the instance: "SSABlock", "SSAPath", "SSADiGraph"
    ira,            \* the IRA as given: [n, edges, irs, dissect]; never written
    heap,           \* block objects: reference -> list of AssignBlocks (irs)
    blocks,         \* self.blocks: label -> reference of the SSA block
    expressions,    \* self.expressions: dst -> src
    _stack_rhs,     \* self._stack_rhs: variable -> reaching version
    _stack_lhs,     \* self._stack_lhs: variable -> next version (counter)
    defs,           \* self.defs: variable -> set of labels
    _phinodes,      \* self._phinodes: label -> (dst -> phi function)
    pc,             \* position inside transform
    arg,            \* argument of the running / last transform
    run,            \* number of transforms started on the instance
    fresh,          \* TRUE while no transform was made since the construction
                    \* or the last reset
    clean,          \* history: the running / last transform started fresh
    walk,           \* _rename: blocks the dominator tree walk still yields
    stack,          \* _rename: the local list of saved _stack_rhs
    log,            \* history: one record per AssignBlock renamed
    copies,         \* history: label -> copy_block calls since construction/reset
    first,          \* history: result of the first transform
    r_expr,         \* reassemble_expr: expr
    r_todo,         \* reassemble_expr: todo
    r_pc,           \* reassemble_expr: "idle", "loop", "returned", "KeyError"
    r_calls,        \* reassemble_expr: number of calls made
    r_seen,         \* history: cur -> times popped in the running call
    r_steps,        \* history: iterations of the worklist in the running call
    r_res,          \* history: value returned by the first call
    _phi_cache,     \* SSADiGraph._phi_cache (class attribute): size -> ExprId
    other,          \* a second SSADiGraph instance, on an IRA of its own
    scope           \* history of _rename: label -> [n, restored, end], the
                    \* position of the block in the walk, _stack_rhs as
                    \* restored at its start and as left at its end

vars == <<cls, ira, heap, blocks, expressions, _stack_rhs, _stack_lhs, defs,
          _phinodes, pc, arg, run, fresh, clean, walk, stack, log, copies, first,
          r_expr, r_todo, r_pc, r_calls, r_seen, r_steps, r_res,
          _phi_cache, other, scope>>

tvars == <<cls, ira, heap, blocks, expressions, _stack_rhs, _stack_lhs, defs,
           _phinodes, pc, arg, run, fresh, clean, walk, stack, log, copies, first,
           _phi_cache, other, scope>>

qvars == <<r_expr, r_todo, r_pc, r_calls, r_seen, r_steps, r_res, other>>

rvars == <<r_expr, r_todo, r_pc, r_calls, r_seen, r_steps, r_res, other, scope>>

(***************************************************************************)
(* Bounds of the model.                                                    *)
(***************************************************************************)
\* largest number of blocks of a CFG given to SSADiGraph
MaxNodes == 4
\* largest number of labels of a path given to SSAPath
MaxPath == 2
\* largest number of blocks that a client obtains with get_block and that no
\* transform has renamed
MaxGets == 1
\* largest number of worklist iterations of reassemble_expr that are followed
MaxSteps == 6

EmptyMap == [z \in {} |-> 0]

(***************************************************************************)
(* Expression algebra (miasm2.expression.expression)                       *)
(***************************************************************************)
Tok(k, n, v, a) == [k |-> k, n |-> n, v |-> v, a |-> a, s |-> 32]

ExprId(n) == <<Tok("id", n, <<>>, 0)>>

ExprInt(i) == <<Tok("int", "", <<>>, i)>>

ExprMem(addr) == <<Tok("mem", "@", <<>>, 1)>> \o addr

RECURSIVE Flatten(_)
Flatten(args) ==
    IF args = <<>> THEN <<>> ELSE Head(args) \o Flatten(Tail(args))

ExprOp(op, args) == <<Tok("op", op, <<>>, Len(args))>> \o Flatten(args)

IsExprId(e) == Len(e) = 1 /\ e[1].k = "id"

IsExprMem(e) == Len(e) >= 1 /\ e[1].k = "mem"

\* number of operands of the token t
NArgs(t) == IF t.k \in {"op", "mem"} THEN t.a ELSE 0

\* index after the end of the subexpression of e that starts at index i
RECURSIVE Span(_, _, _)
Span(e, i, n) ==
    IF n = 0 THEN i ELSE Span(e, i + 1, (n - 1) + NArgs(e[i]))

\* ExprOp.args: the operands of the expression e
RECURSIVE ArgsFrom(_, _, _)
ArgsFrom(e, i, n) ==
    IF n = 0 THEN <<>>
    ELSE LET j == Span(e, i, 1)
         IN  <<SubSeq(e, i, j - 1)>> \o ArgsFrom(e, j, n - 1)

Args(e) == ArgsFrom(e, 2, NArgs(e[1]))

\* Expr.replace_expr(dct) on a list e of expressions: every subexpression
\* that is a key of dct is replaced by its image, which is not visited again
RECURSIVE replace_expr(_, _)
replace_expr(e, dct) ==
    IF e = <<>> THEN <<>>
    ELSE LET n == Span(e, 1, 1) - 1
         IN  IF SubSeq(e, 1, n) \in DOMAIN dct
             THEN dct[SubSeq(e, 1, n)] \o replace_expr(SubSeq(e, n + 1, Len(e)), dct)
             ELSE <<e[1]>> \o replace_expr(Tail(e), dct)

\* ExprDissector.variables / ExprDissector.id_: the identifier leaves of e
variables(e) == {<<e[i]>> : i \in {j \in 1..Len(e) : e[j].k = "id"}}

\* the identifiers of S, a name before the names made from it
\* ("base_first") or after them ("base_last")
RECURSIVE BaseOrder(_, _)
BaseOrder(S, base) ==
    IF S = {} THEN <<>>
    ELSE LET a == CHOOSE a \in S : \A b \in S :
                      IF base = "base_first"
                      THEN Len(a[1].v) <= Len(b[1].v)
                      ELSE Len(a[1].v) >= Len(b[1].v)
         IN  <<a>> \o BaseOrder(S \ {a}, base)

\* the identifiers of S as the list that a loop over the set goes through.
\* The order is that of the set object that ExprDissector.variables returns:
\* order.at gives the list of each set it names, any list of the set, and
\* the sets it does not name are gone through as BaseOrder says
IterOrder(S, order) ==
    IF S \in DOMAIN order.at THEN order.at[S] ELSE BaseOrder(S, order.base)

\* the orders of the instances that are followed
DissectOrders ==
    {[base |-> base, at |-> EmptyMap] : base \in {"base_first", "base_last"}}

(***************************************************************************)
(* Architecture and IRA                                                    *)
(***************************************************************************)
IRDst == ExprId("IRDst")

PC == ExprId("PC")

X == ExprId("x")

Y == ExprId("y")

Aff(dst, src) == [dst |-> dst, src |-> src]

\* { PC <- x, IRDst <- y }
BlkJump == << <<Aff(PC, X), Aff(IRDst, Y)>> >>

\* { x <- x + 1, y <- x }
BlkPar == << <<Aff(X, ExprOp("+", <<X, ExprInt(1)>>)), Aff(Y, X)>> >>

\* { y <- x, x <- x + 1 } ; { @[x] <- y, x <- x + 4, @[y] <- x }
BlkMem ==
    << <<Aff(Y, X), Aff(X, ExprOp("+", <<X, ExprInt(1)>>))>>,
       <<Aff(ExprMem(X), Y), Aff(X, ExprOp("+", <<X, ExprInt(4)>>)),
         Aff(ExprMem(Y), X)>> >>

\* x <- 1 ; x <- x + 2 ; y <- x
BlkSeq ==
    << <<Aff(X, ExprInt(1))>>,
       <<Aff(X, ExprOp("+", <<X, ExprInt(2)>>))>>,
       <<Aff(Y, X)>> >>

BlockLib == {BlkJump, BlkPar, BlkMem, BlkSeq}

\* x <- 1 ; y <- x ; x <- x + y
BlkDag ==
    << <<Aff(X, ExprInt(1))>>,
       <<Aff(Y, X)>>,
       <<Aff(X, ExprOp("+", <<X, Y>>))>> >>

\* control flow graphs: n blocks 1..n, head is 1
Cfg(n, edges) == [n |-> n, edges |-> edges]

GraphLib ==
    { Cfg(2, {<<1, 2>>}),
      Cfg(2, {<<1, 2>>, <<2, 1>>}),
      Cfg(2, {<<1, 1>>, <<1, 2>>}),
      Cfg(3, {<<1, 2>>, <<1, 3>>, <<2, 3>>}),
      Cfg(3, {<<1, 2>>, <<2, 2>>, <<2, 3>>}),
      Cfg(3, {<<1, 2>>, <<2, 2>>, <<3, 2>>}),
      Cfg(4, {<<1, 2>>, <<1, 3>>, <<2, 4>>, <<3, 4>>}),
      Cfg(4, {<<1, 2>>, <<1, 3>>, <<2, 3>>, <<3, 4>>, <<1, 4>>}),
      Cfg(4, {<<1, 2>>, <<1, 3>>, <<2, 4>>, <<4, 3>>}),
      Cfg(4, {<<1, 3>>, <<1, 2>>, <<3, 4>>, <<4, 3>>, <<4, 2>>}),
      Cfg(4, {<<1, 2>>, <<1, 3>>, <<2, 3>>, <<4, 3>>}),
      Cfg(5, {<<1, 2>>, <<2, 3>>, <<2, 4>>, <<3, 5>>, <<4, 5>>, <<5, 2>>}) }

\* the blocks that the blocks of CFG g are drawn from: the larger the CFG,
\* the fewer
Library(g) ==
    IF g.n < Cardinality(BlockLib) THEN BlockLib
    ELSE IF g.n = Cardinality(BlockLib) THEN {BlkJump, BlkPar, BlkSeq}
    ELSE {BlkPar, BlkSeq}

Graphs == {g \in GraphLib : g.n <= MaxNodes}

Ira(label) == [kind |-> "ira", label |-> label]

Ssa(label) == [kind |-> "ssa", label |-> label]

(***************************************************************************)
(* Graph services of the IRA's DiGraph (miasm2.core.graph)                 *)
(***************************************************************************)
Nodes(g) == 1..g.n

successors(g, b) == {m \in Nodes(g) : <<b, m>> \in g.edges}

predecessors(g, b) == {m \in Nodes(g) : <<m, b>> \in g.edges}

\* blocks reachable from the blocks of S along edges that avoid block d
\* (d = 0 avoids nothing)
RECURSIVE ReachAvoid(_, _, _)
ReachAvoid(g, S, d) ==
    LET T == S \cup {m \in Nodes(g) \ {d} : \E b \in S : <<b, m>> \in g.edges}
    IN  IF T = S THEN S ELSE ReachAvoid(g, T, d)

\* DiGraph.walk_depth_first_forward(head), as a set
Reach(g, head) == ReachAvoid(g, {head}, 0)

\* d dominates b: every path from head to b goes through d
Dominates(g, head, d, b) ==
    /\ b \in Reach(g, head)
    /\ d \in Reach(g, head)
    /\ \/ d = b
       \/ d = head
       \/ b \notin ReachAvoid(g, {head}, d)

StrictlyDominates(g, head, d, b) == d # b /\ Dominates(g, head, d, b)

\* immediate dominator of b # head
Idom(g, head, b) ==
    CHOOSE d \in Nodes(g) :
        /\ StrictlyDominates(g, head, d, b)
        /\ \A c \in Nodes(g) :
               StrictlyDominates(g, head, c, b) => Dominates(g, head, c, d)

\* DiGraph.compute_dominator_tree(head): successors of b in the tree
DomChildren(g, head, b) ==
    {c \in Reach(g, head) \ {head} : Idom(g, head, c) = b}

\* DiGraph.compute_dominance_frontier(head)[b]
compute_dominance_frontier(g, head, b) ==
    {m \in Reach(g, head) :
        /\ \E p \in predecessors(g, m) : Dominates(g, head, b, p)
        /\ ~StrictlyDominates(g, head, b, m)}

\* a set of labels as the list in increasing order
RECURSIVE SortedSeq(_)
SortedSeq(S) ==
    IF S = {} THEN <<>>
    ELSE LET m == CHOOSE a \in S : \A b \in S : a <= b
         IN  <<m>> \o SortedSeq(S \ {m})

\* dominator_tree.walk_depth_first_forward(head): todo is a list used as a
\* stack; a block is yielded after its successors were pushed
RECURSIVE walk_depth_first_forward(_, _, _, _)
walk_depth_first_forward(g, head, todo, done) ==
    IF todo = <<>> THEN <<>>
    ELSE LET node == todo[Len(todo)]
             rest == SubSeq(todo, 1, Len(todo) - 1)
         IN  IF node \in done
             THEN walk_depth_first_forward(g, head, rest, done)
             ELSE <<node>> \o
                  walk_depth_first_forward(
                      g, head, rest \o SortedSeq(DomChildren(g, head, node)),
                      done \cup {node})

(***************************************************************************)
(* class SSA.  The methods work on the record st of the fields they read   *)
(* and write: [rhs, lhs, ex, heap, blocks, copies, log] for _stack_rhs,    *)
(* _stack_lhs, expressions, the block objects, blocks and the histories.   *)
(***************************************************************************)
\* _copy_block that puts the IRA's own block into self.blocks
Mut_copy_block(label, st) ==
    [st EXCEPT !.blocks = (label :> Ira(label)) @@ @,
               !.copies = (label :> (IF label \in DOMAIN @ THEN @[label] ELSE 0) + 1) @@ @]

\* SSA._copy_block: ira.copy_block(label) makes a new object, a copy of the
\* IRA's block, and self.blocks is updated with it
_copy_block(label, st) ==
    [st EXCEPT !.heap = (Ssa(label) :> st.heap[Ira(label)]) @@ @,
               !.blocks = (label :> Ssa(label)) @@ @,
               !.copies = (label :> (IF label \in DOMAIN @ THEN @[label] ELSE 0) + 1) @@ @]

\* SSA.get_block: the state after the call; the block returned is
\* st.blocks[label] of that state
get_block(label, st) ==
    IF label \notin DOMAIN st.blocks THEN _copy_block(label, st) ELSE st

\* SSA.reverse_variable
reverse_variable(variable) ==
    IF variable[1].v # <<>>
    THEN <<[variable[1] EXCEPT !.v = SubSeq(@, 1, Len(@) - 1)]>>
    ELSE variable

\* SSA._gen_var_expr: name = (v.name, stack[v])
_gen_var_expr(v, stk) == <<[v[1] EXCEPT !.v = Append(@, stk[v])]>>

\* _transform_var_rhs that gives version 0 to a variable that has never
\* been on the LHS
Mut_transform_var_rhs(v, rhs) ==
    IF v \notin DOMAIN rhs THEN _gen_var_expr(v, (v :> 0)) ELSE _gen_var_expr(v, rhs)

\* SSA._transform_var_rhs
_transform_var_rhs(v, rhs) ==
    IF v \notin DOMAIN rhs THEN v ELSE _gen_var_expr(v, rhs)

\* SSA._transform_expression_rhs: the loop "for v in variables", each
\* replace_expr working on the result of the one before
RECURSIVE SubstLoop(_, _, _)
SubstLoop(vs, src_ssa, rhs) ==
    IF vs = <<>> THEN src_ssa
    ELSE SubstLoop(Tail(vs),
                   replace_expr(src_ssa,
                                (Head(vs) :> _transform_var_rhs(Head(vs), rhs))),
                   rhs)

\* SSA._transform_expression_rhs; order is the order in which the loop goes
\* through ExprDissector.variables(src)
_transform_expression_rhs(src, rhs, order) ==
    SubstLoop(IterOrder(variables(src), order), src, rhs)

\* SSA._transform_var_lhs: [e, rhs, lhs]
_transform_var_lhs(v, rhs, lhs) ==
    LET lhs1 == IF v \notin DOMAIN lhs THEN (v :> 0) @@ lhs ELSE lhs
        rhs1 == (v :> lhs1[v]) @@ rhs
    IN  [e |-> _gen_var_expr(v, lhs1), rhs |-> rhs1, lhs |-> lhs1]

\* _transform_expression_lhs without "self._stack_lhs[dst] += 1"
Mut_transform_expression_lhs(dst, rhs, lhs, order) ==
    IF IsExprMem(dst)
    THEN [e |-> _transform_expression_rhs(dst, rhs, order), rhs |-> rhs, lhs |-> lhs]
    ELSE _transform_var_lhs(dst, rhs, lhs)

\* _transform_expression_lhs that renames a memory destination with
\* _stack_lhs instead of _stack_rhs
Mut_transform_expression_lhs_mem(dst, rhs, lhs, order) ==
    IF IsExprMem(dst)
    THEN [e |-> _transform_expression_rhs(dst, lhs, order), rhs |-> rhs, lhs |-> lhs]
    ELSE LET r == _transform_var_lhs(dst, rhs, lhs)
         IN  [r EXCEPT !.lhs = [@ EXCEPT ![dst] = @ + 1]]

\* SSA._transform_expression_lhs: [e, rhs, lhs]
_transform_expression_lhs(dst, rhs, lhs, order) ==
    IF IsExprMem(dst)
    THEN [e |-> _transform_expression_rhs(dst, rhs, order), rhs |-> rhs, lhs |-> lhs]
    ELSE LET r == _transform_var_lhs(dst, rhs, lhs)
         IN  [r EXCEPT !.lhs = [@ EXCEPT ![dst] = @ + 1]]

\* the loop of _parallel_instructions that puts a memory assignment after
\* the memory assignments already in the list
RECURSIVE MutParallelLoop(_, _)
MutParallelLoop(assignblk, instructions) ==
    IF assignblk = <<>> THEN instructions
    ELSE LET k == Cardinality({i \in 1..Len(instructions) :
                                  IsExprMem(instructions[i].dst)})
         IN  MutParallelLoop(
                 Tail(assignblk),
                 IF IsExprMem(Head(assignblk).dst)
                 THEN SubSeq(instructions, 1, k) \o <<Head(assignblk)>>
                      \o SubSeq(instructions, k + 1, Len(instructions))
                 ELSE Append(instructions, Head(assignblk)))

\* SSA._parallel_instructions: the loop over the AssignBlock
RECURSIVE ParallelLoop(_, _)
ParallelLoop(assignblk, instructions) ==
    IF assignblk = <<>> THEN instructions
    ELSE ParallelLoop(
             Tail(assignblk),
             IF IsExprMem(Head(assignblk).dst)
             THEN <<Head(assignblk)>> \o instructions
             ELSE Append(instructions, Head(assignblk)))

_parallel_instructions(assignblk) == ParallelLoop(assignblk, <<>>)

\* AssignBlock.__setitem__: an AssignBlock is a dict, kept in insertion order
AssignBlockSet(ab, dst, src) ==
    IF \E i \in 1..Len(ab) : ab[i].dst = dst
    THEN [i \in 1..Len(ab) |-> IF ab[i].dst = dst THEN Aff(dst, src) ELSE ab[i]]
    ELSE Append(ab, Aff(dst, src))

\* SSA._rename_expressions, "transform RHS": the deque rhs
TransformRhs(instructions, rhs, order) ==
    [i \in 1..Len(instructions) |->
        _transform_expression_rhs(instructions[i].src, rhs, order)]

\* "transform LHS" that renames each source when its destination is renamed,
\* instead of taking it from the deque
RECURSIVE MutTransformLhs(_, _, _, _, _)
MutTransformLhs(instructions, rhsq, i, acc, order) ==
    IF i > Len(instructions) THEN acc
    ELSE LET r == _transform_expression_lhs(instructions[i].dst, acc.rhs, acc.lhs,
                                            order)
             src_ssa == _transform_expression_rhs(instructions[i].src, r.rhs, order)
         IN  MutTransformLhs(
                 instructions, rhsq, i + 1,
                 [rhs |-> r.rhs, lhs |-> r.lhs,
                  ex |-> (r.e :> src_ssa) @@ acc.ex,
                  out |-> AssignBlockSet(acc.out, r.e, src_ssa)],
                 order)

\* SSA._rename_expressions, "transform LHS": acc is [rhs, lhs, ex, out]
RECURSIVE TransformLhs(_, _, _, _, _)
TransformLhs(instructions, rhsq, i, acc, order) ==
    IF i > Len(instructions) THEN acc
    ELSE LET r == _transform_expression_lhs(instructions[i].dst, acc.rhs, acc.lhs,
                                            order)
         IN  TransformLhs(
                 instructions, rhsq, i + 1,
                 [rhs |-> r.rhs, lhs |-> r.lhs,
                  ex |-> (r.e :> rhsq[i]) @@ acc.ex,
                  out |-> AssignBlockSet(acc.out, r.e, rhsq[i])],
                 order)

\* SSA._rename_expressions: one iteration of the loop over ib.irs
RenameAssignBlock(label, index, st) ==
    LET ib == st.blocks[label]
        assignblk == st.heap[ib][index]
        instructions == _parallel_instructions(assignblk)
        rhsq == TransformRhs(instructions, st.rhs, st.order)
        r == TransformLhs(instructions, rhsq, 1,
                          [rhs |-> st.rhs, lhs |-> st.lhs, ex |-> st.ex,
                           out |-> <<>>],
                          st.order)
    IN  [st EXCEPT !.rhs = r.rhs, !.lhs = r.lhs, !.ex = r.ex,
                   !.heap = [@ EXCEPT ![ib] = [@ EXCEPT ![index] = r.out]],
                   !.log = Append(@, [label |-> label, index |-> index,
                                      rhs |-> st.rhs, lhs |-> st.lhs,
                                      ins |-> instructions, out |-> r.out,
                                      rhs_out |-> r.rhs, lhs_out |-> r.lhs])]

RECURSIVE RenameLoop(_, _, _)
RenameLoop(label, index, st) ==
    IF index > Len(st.heap[st.blocks[label]]) THEN st
    ELSE RenameLoop(label, index + 1, RenameAssignBlock(label, index, st))

\* SSA._rename_expressions
_rename_expressions(label, st) == RenameLoop(label, 1, get_block(label, st))

(***************************************************************************)
(* class SSADiGraph                                                        *)
(***************************************************************************)
\* a finite set as a list, in the order in which a loop iterates over it
RECURSIVE SetToSeq(_)
SetToSeq(S) ==
    IF S = {} THEN <<>>
    ELSE LET a == CHOOSE a \in S : TRUE IN <<a>> \o SetToSeq(S \ {a})

\* the architecture's instruction pointer: arch.pc.values() + [IRDst]
instruction_pointer == {PC, IRDst}

\* SSADiGraph._init_variable_defs: get_block for every block of the walk
RECURSIVE GetBlocks(_, _)
GetBlocks(labels, st) ==
    IF labels = <<>> THEN st
    ELSE GetBlocks(Tail(labels), get_block(Head(labels), st))

\* destinations of a block: dst for assignblk in ib.irs for dst in assignblk
ir_dsts(irs) ==
    UNION {{irs[i][j].dst : j \in 1..Len(irs[i])} : i \in 1..Len(irs)}

\* SSADiGraph._init_variable_defs: [st, defs]
_init_variable_defs(head, st, dfs) ==
    LET labels == Reach(ira, head)
        st1 == GetBlocks(SortedSeq(labels), st)
        dsts(b) == {dst \in ir_dsts(st1.heap[st1.blocks[b]]) :
                        IsExprId(dst) /\ dst \notin instruction_pointer}
        found == UNION {dsts(b) : b \in labels}
    IN  [st |-> st1,
         defs |-> [v \in DOMAIN dfs \cup found |->
                      (IF v \in DOMAIN dfs THEN dfs[v] ELSE {})
                      \cup {b \in labels : v \in dsts(b)}]]

\* _place_phi that does not put the blocks that got a phi on the worklist
RECURSIVE MutPlaceLoop(_, _, _, _, _)
MutPlaceLoop(head, todo, done, intodo, pops) ==
    IF todo = {} THEN [done |-> done, pops |-> pops]
    ELSE LET block_label == CHOOSE b \in todo : TRUE
             new == compute_dominance_frontier(ira, head, block_label) \ done
         IN  MutPlaceLoop(head, todo \ {block_label}, done \cup new,
                          intodo, pops + 1)

\* SSADiGraph._place_phi: the while loop for one variable;
\* [done, pops]: the blocks that got a phi, iterations made
RECURSIVE PlaceLoop(_, _, _, _, _)
PlaceLoop(head, todo, done, intodo, pops) ==
    IF todo = {} THEN [done |-> done, pops |-> pops]
    ELSE LET block_label == CHOOSE b \in todo : TRUE
             new == compute_dominance_frontier(ira, head, block_label) \ done
             add == new \ intodo
         IN  PlaceLoop(head, (todo \ {block_label}) \cup add, done \cup new,
                       intodo \cup add, pops + 1)

\* SSADiGraph._place_phi, per variable: [done, pops]
PlaceVariable(head, dfs, variable) ==
    PlaceLoop(head, dfs[variable], {}, dfs[variable], 0)

\* SSADiGraph._gen_empty_phi: the ExprAff's src; the cache after the call is
\* PhiCacheAfter
_gen_empty_phi(variable, cache) ==
    IF variable[1].s \notin DOMAIN cache THEN ExprId("phi")
    ELSE cache[variable[1].s]

PhiCacheAfter(variable, cache) ==
    IF variable[1].s \notin DOMAIN cache
    THEN (variable[1].s :> ExprId("phi")) @@ cache
    ELSE cache

\* SSADiGraph._place_phi: the _phinodes after the call
_place_phi(head, dfs, phinodes, cache) ==
    LET at(node) == {v \in DOMAIN dfs : node \in PlaceVariable(head, dfs, v).done}
        nodes == {node \in Nodes(ira) : at(node) # {}} \cup DOMAIN phinodes
    IN  [node \in nodes |->
            [v \in at(node) |-> _gen_empty_phi(v, PhiCacheAfter(v, cache))]
            @@ (IF node \in DOMAIN phinodes THEN phinodes[node] ELSE EmptyMap)]

\* SSADiGraph._fill_phi
_fill_phi(args) == ExprOp("phi", args)

\* SSADiGraph._transform_phi_rhs
_transform_phi_rhs(src, rhs, order) ==
    _transform_expression_rhs(reverse_variable(src), rhs, order)

\* the loop of _rename_phi_lhs that puts an empty phi function under the
\* renamed destination
RECURSIVE MutPhiLhsLoop(_, _, _)
MutPhiLhsLoop(tmp, acc, order) ==
    IF tmp = <<>> THEN acc
    ELSE LET dst == Head(tmp)
             r == _transform_expression_lhs(dst, acc.rhs, acc.lhs, order)
             popped == [d \in DOMAIN acc.phi \ {dst} |-> acc.phi[d]]
         IN  MutPhiLhsLoop(Tail(tmp),
                           [phi |-> (r.e :> ExprId("phi")) @@ popped,
                            rhs |-> r.rhs, lhs |-> r.lhs],
                           order)

\* SSADiGraph._rename_phi_lhs: the loop over tmp; acc is [phi, rhs, lhs],
\* phi the dict _phinodes[label]
RECURSIVE PhiLhsLoop(_, _, _)
PhiLhsLoop(tmp, acc, order) ==
    IF tmp = <<>> THEN acc
    ELSE LET dst == Head(tmp)
             r == _transform_expression_lhs(dst, acc.rhs, acc.lhs, order)
             popped == [d \in DOMAIN acc.phi \ {dst} |-> acc.phi[d]]
         IN  PhiLhsLoop(Tail(tmp),
                        [phi |-> (r.e :> acc.phi[dst]) @@ popped,
                         rhs |-> r.rhs, lhs |-> r.lhs],
                        order)

\* _rename_phi_lhs that leaves _stack_rhs as it was
Mut_rename_phi_lhs(label, phinodes, rhs, lhs, order) ==
    IF label \notin DOMAIN phinodes
    THEN [phinodes |-> phinodes, rhs |-> rhs, lhs |-> lhs]
    ELSE LET r == PhiLhsLoop(SetToSeq(DOMAIN phinodes[label]),
                             [phi |-> phinodes[label], rhs |-> rhs, lhs |-> lhs],
                             order)
         IN  [phinodes |-> [phinodes EXCEPT ![label] = r.phi],
              rhs |-> rhs, lhs |-> r.lhs]

\* SSADiGraph._rename_phi_lhs: [phinodes, rhs, lhs]
_rename_phi_lhs(label, phinodes, rhs, lhs, order) ==
    IF label \notin DOMAIN phinodes
    THEN [phinodes |-> phinodes, rhs |-> rhs, lhs |-> lhs]
    ELSE LET r == PhiLhsLoop(SetToSeq(DOMAIN phinodes[label]),
                             [phi |-> phinodes[label], rhs |-> rhs, lhs |-> lhs],
                             order)
         IN  [phinodes |-> [phinodes EXCEPT ![label] = r.phi],
              rhs |-> r.rhs, lhs |-> r.lhs]

\* _rename_phi_rhs that drops the operands the phi function already has
MutPhiRhs(dst, src, rhs, order) ==
    _fill_phi(<<_transform_phi_rhs(dst, rhs, order)>>)

\* SSADiGraph._rename_phi_rhs, for one phi function of the successor
PhiRhs(dst, src, rhs, order) ==
    LET src_ssa == _transform_phi_rhs(dst, rhs, order)
    IN  IF IsExprId(src) /\ src[1].n = "phi" /\ src[1].v = <<>>
        THEN _fill_phi(<<src_ssa>>)
        ELSE _fill_phi(<<src_ssa>> \o Args(src))

\* SSADiGraph._rename_phi_rhs: the _phinodes after the call
_rename_phi_rhs(successor, phinodes, rhs, order) ==
    IF successor \notin DOMAIN phinodes THEN phinodes
    ELSE [phinodes EXCEPT ![successor] =
             [dst \in DOMAIN @ |-> PhiRhs(dst, @[dst], rhs, order)]]

\* SSADiGraph._rename: the loop over the CFG successors of a block
RECURSIVE PhiRhsLoop(_, _, _, _)
PhiRhsLoop(succs, phinodes, rhs, order) ==
    IF succs = <<>> THEN phinodes
    ELSE PhiRhsLoop(Tail(succs),
                    _rename_phi_rhs(Head(succs), phinodes, rhs, order), rhs, order)

\* _rename without the restore: _stack_rhs keeps the value it had
MutRestoreStack(stk, rhs) == rhs

\* _rename that takes the oldest saved map instead of the newest
MutRestoreFirst(stk, rhs) == stk[1]

\* SSADiGraph._rename: self._stack_rhs = stack.pop().copy(); the value
\* _stack_rhs takes, rhs being the value it had
RestoreStack(stk, rhs) == stk[Len(stk)]

\* SSADiGraph._insert_phi: the expressions after the call
_insert_phi(phinodes, ex) ==
    LET dsts == UNION {DOMAIN phinodes[b] : b \in DOMAIN phinodes}
        src(dst) == LET b == CHOOSE b \in DOMAIN phinodes : dst \in DOMAIN phinodes[b]
                    IN  phinodes[b][dst]
    IN  [dst \in dsts |-> src(dst)] @@ ex

\* SSADiGraph._convert_phi, for one block: the AssignBlock of its phi
\* functions is inserted at index 0 of the block that get_block returns
PhiAssignBlock(phi) ==
    LET dsts == SetToSeq(DOMAIN phi)
    IN  [i \in 1..Len(dsts) |-> Aff(dsts[i], phi[dsts[i]])]

\* the loop of _convert_phi that appends the AssignBlock of the phi
\* functions to the block
RECURSIVE MutConvertLoop(_, _, _)
MutConvertLoop(labels, phinodes, st) ==
    IF labels = <<>> THEN st
    ELSE LET st1 == get_block(Head(labels), st)
             ib == st1.blocks[Head(labels)]
         IN  MutConvertLoop(
                 Tail(labels), phinodes,
                 [st1 EXCEPT !.heap = [@ EXCEPT ![ib] =
                     Append(@, PhiAssignBlock(phinodes[Head(labels)]))]])

RECURSIVE ConvertLoop(_, _, _)
ConvertLoop(labels, phinodes, st) ==
    IF labels = <<>> THEN st
    ELSE LET st1 == get_block(Head(labels), st)
             ib == st1.blocks[Head(labels)]
         IN  ConvertLoop(
                 Tail(labels), phinodes,
                 [st1 EXCEPT !.heap = [@ EXCEPT ![ib] =
                     <<PhiAssignBlock(phinodes[Head(labels)])>> \o @]])

\* SSADiGraph._convert_phi
_convert_phi(phinodes, st) ==
    ConvertLoop(SortedSeq(DOMAIN phinodes), phinodes, st)

(***************************************************************************)
(* The instance and its operations                                         *)
(***************************************************************************)
St == [rhs |-> _stack_rhs, lhs |-> _stack_lhs, ex |-> expressions,
       heap |-> heap, blocks |-> blocks, copies |-> copies, log |-> log,
       order |-> ira.dissect]

Commit(st) ==
    /\ _stack_rhs' = st.rhs
    /\ _stack_lhs' = st.lhs
    /\ expressions' = st.ex
    /\ heap' = st.heap
    /\ blocks' = st.blocks
    /\ copies' = st.copies
    /\ log' = st.log

\* what a caller reads: the contents of the blocks of self.blocks, the
\* expressions and the phi functions
Result(st, phinodes) ==
    [blocks |-> [b \in DOMAIN st.blocks |-> st.heap[st.blocks[b]]],
     expressions |-> st.ex,
     phinodes |-> phinodes]

NoResult == [blocks |-> EmptyMap, expressions |-> EmptyMap, phinodes |-> EmptyMap]

LineCfg == Cfg(3, {<<1, 2>>, <<2, 3>>})

Inputs(c) ==
    UNION {{[n |-> g.n, edges |-> g.edges, irs |-> irs, dissect |-> order] :
               irs \in [1..g.n -> Library(g)],
               order \in DissectOrders} :
           g \in (IF c = "SSADiGraph" THEN Graphs ELSE {LineCfg})}

\* paths given to SSAPath.transform: lists of distinct labels
Paths ==
    {p \in UNION {[1..k -> Nodes(ira)] : k \in 1..MaxPath} :
        \A i, j \in DOMAIN p : i # j => p[i] # p[j]}

InitReassemble ==
    /\ r_expr = <<>>
    /\ r_todo = {}
    /\ r_pc = "idle"
    /\ r_calls = 0
    /\ r_seen = EmptyMap
    /\ r_steps = 0
    /\ r_res = <<>>

\* no second instance
NoOther == [pc |-> "none"]

\* SSA.__init__ / SSADiGraph.__init__
InitInstance ==
    /\ heap = [o \in {Ira(b) : b \in Nodes(ira)} |-> ira.irs[o.label]]
    /\ blocks = EmptyMap
    /\ expressions = EmptyMap
    /\ _stack_rhs = EmptyMap
    /\ _stack_lhs = EmptyMap
    /\ defs = EmptyMap
    /\ _phinodes = EmptyMap
    /\ _phi_cache = EmptyMap
    /\ pc = "idle"
    /\ arg = <<>>
    /\ run = 0
    /\ fresh = TRUE
    /\ clean = TRUE
    /\ walk = <<>>
    /\ stack = <<>>
    /\ log = <<>>
    /\ copies = EmptyMap
    /\ first = NoResult
    /\ scope = EmptyMap

Init ==
    /\ cls \in {"SSABlock", "SSAPath", "SSADiGraph"}
    /\ ira \in Inputs(cls)
    /\ InitInstance
    /\ InitReassemble
    /\ other = NoOther

\* a transform may start: at most two are followed, the second one with
\* the argument of the first
MayStart(a) ==
    /\ pc \in {"idle", "done"}
    /\ run < 2
    /\ run = 1 => a = arg[1]

Started(a) ==
    /\ arg' = <<a>>
    /\ run' = run + 1
    /\ clean' = fresh
    /\ fresh' = FALSE

Finished(st, phinodes) ==
    first' = IF run = 0 THEN Result(st, phinodes) ELSE first

\* SSABlock.transform(label)
SSABlock_transform ==
    \E label \in Nodes(ira) :
        /\ cls = "SSABlock"
        /\ MayStart(label)
        /\ LET st == _rename_expressions(label, St)
           IN  Commit(st) /\ Finished(st, _phinodes)
        /\ Started(label)
        /\ pc' = "done"
        /\ UNCHANGED <<cls, ira, defs, _phinodes, walk, stack, _phi_cache>>
        /\ UNCHANGED rvars

\* the loop over the path that starts every block with an empty
\* reaching-version map
RECURSIVE MutPathLoop(_, _)
MutPathLoop(path, st) ==
    IF path = <<>> THEN st
    ELSE MutPathLoop(Tail(path),
                     _rename_expressions(Head(path), [st EXCEPT !.rhs = EmptyMap]))

\* SSAPath.transform(path): the loop over the path
RECURSIVE PathLoop(_, _)
PathLoop(path, st) ==
    IF path = <<>> THEN st
    ELSE PathLoop(Tail(path), _rename_expressions(Head(path), st))

SSAPath_transform ==
    \E path \in Paths :
        /\ cls = "SSAPath"
        /\ MayStart(path)
        /\ LET st == PathLoop(path, St)
           IN  Commit(st) /\ Finished(st, _phinodes)
        /\ Started(path)
        /\ pc' = "done"
        /\ UNCHANGED <<cls, ira, defs, _phinodes, walk, stack, _phi_cache>>
        /\ UNCHANGED rvars

\* SSADiGraph.transform(head): self._init_variable_defs(head)
InitVariableDefs ==
    \E head \in {1} :
        /\ cls = "SSADiGraph"
        /\ MayStart(head)
        /\ LET r == _init_variable_defs(head, St, defs)
           IN  Commit(r.st) /\ defs' = r.defs
        /\ Started(head)
        /\ pc' = "place_phi"
        /\ UNCHANGED <<cls, ira, _phinodes, walk, stack, first, _phi_cache>>
        /\ UNCHANGED rvars

\* SSADiGraph.transform(head): self._place_phi(head)
PlacePhi ==
    /\ pc = "place_phi"
    /\ _phinodes' = _place_phi(arg[1], defs, _phinodes, _phi_cache)
    /\ _phi_cache' =
           IF \E v \in DOMAIN defs : PlaceVariable(arg[1], defs, v).done # {}
           THEN PhiCacheAfter(CHOOSE v \in DOMAIN defs : TRUE, _phi_cache)
           ELSE _phi_cache
    /\ pc' = "rename"
    /\ UNCHANGED <<cls, ira, heap, blocks, expressions, _stack_rhs, _stack_lhs,
                   defs, arg, run, fresh, clean, walk, stack, log, copies, first>>
    /\ UNCHANGED rvars

\* SSADiGraph._rename(head), up to the loop: the dominator tree is computed
\* and the list of saved stacks is initialised
RenameEnter ==
    /\ pc = "rename"
    /\ walk' = walk_depth_first_forward(ira, arg[1], <<arg[1]>>, {})
    /\ stack' = <<_stack_rhs>>
    /\ scope' = EmptyMap
    /\ pc' = "walk"
    /\ UNCHANGED <<cls, ira, heap, blocks, expressions, _stack_rhs, _stack_lhs,
                   defs, _phinodes, arg, run, fresh, clean, log, copies, first,
                   _phi_cache>>
    /\ UNCHANGED qvars

\* SSADiGraph._rename(head): one iteration of the loop over the dominator tree
RenameBlock ==
    /\ pc = "walk"
    /\ walk # <<>>
    /\ LET block_label == Head(walk)
           restored == RestoreStack(stack, _stack_rhs)
           p == _rename_phi_lhs(block_label, _phinodes, restored, _stack_lhs,
                                ira.dissect)
           st == _rename_expressions(block_label,
                                     [St EXCEPT !.rhs = p.rhs, !.lhs = p.lhs])
           children == DomChildren(ira, arg[1], block_label)
       IN  /\ Commit(st)
           /\ _phinodes' = PhiRhsLoop(SortedSeq(successors(ira, block_label)),
                                      p.phinodes, st.rhs, ira.dissect)
           /\ stack' = SubSeq(stack, 1, Len(stack) - 1)
                       \o [i \in 1..Cardinality(children) |-> st.rhs]
           /\ scope' = (block_label :>
                            [n |-> Cardinality(DOMAIN scope) + 1,
                             restored |-> restored, end |-> st.rhs]) @@ scope
    /\ walk' = Tail(walk)
    /\ pc' = IF Tail(walk) = <<>> THEN "insert_phi" ELSE "walk"
    /\ UNCHANGED <<cls, ira, defs, arg, run, fresh, clean, first, _phi_cache>>
    /\ UNCHANGED qvars

\* SSADiGraph.transform(head): self._insert_phi()
InsertPhi ==
    /\ pc = "insert_phi"
    /\ expressions' = _insert_phi(_phinodes, expressions)
    /\ pc' = "convert_phi"
    /\ UNCHANGED <<cls, ira, heap, blocks, _stack_rhs, _stack_lhs, defs,
                   _phinodes, arg, run, fresh, clean, walk, stack, log, copies, first,
                   _phi_cache>>
    /\ UNCHANGED rvars

\* SSADiGraph.transform(head): self._convert_phi()
ConvertPhi ==
    /\ pc = "convert_phi"
    /\ LET st == _convert_phi(_phinodes, St)
       IN  /\ Commit(st)
           /\ first' = IF run = 1 THEN Result(st, _phinodes) ELSE first
    /\ pc' = "done"
    /\ UNCHANGED <<cls, ira, defs, _phinodes, arg, run, fresh, clean, walk, stack,
                   _phi_cache>>
    /\ UNCHANGED rvars

\* SSA.get_block(label), called by a client between two transforms: a
\* block that is not in self.blocks is copied into it
GetBlock ==
    \E label \in Nodes(ira) :
        /\ pc \in {"idle", "done"}
        /\ run < 2
        /\ Cardinality((DOMAIN blocks \cup {label})
                       \ {log[n].label : n \in 1..Len(log)}) <= MaxGets
        /\ Commit(get_block(label, St))
        /\ UNCHANGED <<cls, ira, defs, _phinodes, pc, arg, run, fresh, clean, walk,
                       stack, first, _phi_cache>>
        /\ UNCHANGED rvars

\* reset that leaves the version counters
Mut_reset(st) ==
    [st EXCEPT !.blocks = EmptyMap, !.ex = EmptyMap, !.rhs = EmptyMap,
               !.copies = EmptyMap, !.log = <<>>]

\* SSA.reset: the fields after the call
reset(st) ==
    [st EXCEPT !.blocks = EmptyMap, !.ex = EmptyMap, !.rhs = EmptyMap,
               !.lhs = EmptyMap, !.copies = EmptyMap, !.log = <<>>]

\* SSA.reset() / SSADiGraph.reset()
Reset ==
    /\ pc = "done"
    /\ run < 2
    /\ Commit(reset(St))
    /\ IF cls = "SSADiGraph"
       THEN defs' = EmptyMap /\ _phinodes' = EmptyMap
       ELSE UNCHANGED <<defs, _phinodes>>
    /\ fresh' = TRUE
    /\ pc' = "idle"
    /\ UNCHANGED <<cls, ira, arg, run, clean, walk, stack, first, _phi_cache>>
    /\ UNCHANGED rvars

(***************************************************************************)
(* SSABlock.reassemble_expr, on an SSAPath instance after transform(path)  *)
(***************************************************************************)
InitialSt ==
    [rhs |-> EmptyMap, lhs |-> EmptyMap, ex |-> EmptyMap,
     heap |-> [o \in {Ira(b) : b \in Nodes(ira)} |-> ira.irs[o.label]],
     blocks |-> EmptyMap, copies |-> EmptyMap, log |-> <<>>,
     order |-> ira.dissect]

\* x.0 <- phi(x.1, x) ; x.1 <- x.0 + 1: the expressions that
\* SSADiGraph.transform yields for a block { x <- x + 1 } that loops
LoopTable ==
    LET x0 == <<[X[1] EXCEPT !.v = <<0>>]>>
        x1 == <<[X[1] EXCEPT !.v = <<1>>]>>
    IN  (x0 :> ExprOp("phi", <<x1, X>>)) @@ (x1 :> ExprOp("+", <<x0, ExprInt(1)>>))

\* an order that goes through the set {x, y} as y, x
YFirst == [base |-> "base_first", at |-> ({X, Y} :> <<Y, X>>)]

\* the instance after SSAPath.transform(<<1, 2>>); expressions is what the
\* transform left, or the expressions of a graph with a loop
InitR ==
    /\ cls = "SSAPath"
    /\ ira \in {[n |-> 2, edges |-> {<<1, 2>>}, irs |-> irs, dissect |-> order] :
                    irs \in [1..2 -> BlockLib \cup {BlkDag}],
                    order \in DissectOrders \cup {YFirst}}
    /\ LET st == PathLoop(<<1, 2>>, InitialSt)
       IN  /\ heap = st.heap
           /\ blocks = st.blocks
           /\ expressions \in {st.ex, LoopTable}
           /\ _stack_rhs = st.rhs
           /\ _stack_lhs = st.lhs
           /\ log = st.log
           /\ copies = st.copies
           /\ first = Result(st, EmptyMap)
    /\ defs = EmptyMap
    /\ _phinodes = EmptyMap
    /\ _phi_cache = EmptyMap
    /\ pc = "done"
    /\ arg = << <<1, 2>> >>
    /\ run = 1
    /\ fresh = FALSE
    /\ clean = TRUE
    /\ walk = <<>>
    /\ stack = <<>>
    /\ InitReassemble
    /\ other = NoOther
    /\ scope = EmptyMap

\* the expressions given to reassemble_expr: the keys of expressions and
\* two expressions that are no keys
ReassembleArgs == DOMAIN expressions \cup {X, ExprOp("+", <<Y, ExprInt(1)>>)}

\* reassemble_expr(expr), up to the loop: todo = {expr.copy()}; the second
\* call is given what the first one returned
ReassembleCall ==
    \E expr \in ReassembleArgs \cup {r_res} :
        /\ r_pc \in {"idle", "returned"}
        /\ r_calls < 2
        /\ IF r_calls = 0 THEN expr \in ReassembleArgs ELSE expr = r_res
        /\ r_expr' = expr
        /\ r_todo' = {expr}
        /\ r_pc' = "loop"
        /\ r_calls' = r_calls + 1
        /\ r_seen' = EmptyMap
        /\ r_steps' = 0
        /\ UNCHANGED r_res
        /\ UNCHANGED tvars

\* reassemble_expr: one iteration of "while todo"; self.expressions[cur]
\* raises KeyError when cur is no key
ReassembleStep ==
    \E cur \in r_todo :
        /\ r_pc = "loop"
        /\ r_steps < MaxSteps
        /\ r_steps' = r_steps + 1
        /\ r_seen' = (cur :> (IF cur \in DOMAIN r_seen THEN r_seen[cur] ELSE 0) + 1)
                      @@ r_seen
        /\ IF cur \notin DOMAIN expressions
           THEN /\ r_pc' = "KeyError"
                /\ r_todo' = r_todo \ {cur}
                /\ UNCHANGED r_expr
           ELSE LET cur_rhs == expressions[cur]
                    ids_rhs == variables(cur_rhs)
                IN  /\ r_expr' = replace_expr(r_expr, (cur :> cur_rhs))
                    /\ r_todo' = (r_todo \ {cur})
                                  \cup {id_rhs \in ids_rhs : id_rhs \in DOMAIN expressions}
                    /\ r_pc' = "loop"
        /\ UNCHANGED <<r_calls, r_res>>
        /\ UNCHANGED tvars

\* reassemble_expr: todo is empty, "return expr"
ReassembleReturn ==
    /\ r_pc = "loop"
    /\ r_todo = {}
    /\ r_pc' = "returned"
    /\ r_res' = IF r_calls = 1 THEN r_expr ELSE r_res
    /\ UNCHANGED <<r_expr, r_todo, r_calls, r_seen, r_steps>>
    /\ UNCHANGED tvars

NextR ==
    \/ ReassembleCall
    \/ ReassembleStep
    \/ ReassembleReturn

SpecR == InitR /\ [][NextR]_vars

(***************************************************************************)
(* Two SSADiGraph instances, each on an IRA of its own, whose transforms   *)
(* are interleaved.  The fields of an instance are the record              *)
(* [st, defs, phinodes, walk, stack]; _phi_cache belongs to the class.     *)
(***************************************************************************)
\* SSADiGraph.__init__ on an IRA with the blocks irs
NewInstance(irs, order) ==
    [st |-> [rhs |-> EmptyMap, lhs |-> EmptyMap, ex |-> EmptyMap,
             heap |-> [o \in {Ira(b) : b \in DOMAIN irs} |-> irs[o.label]],
             blocks |-> EmptyMap, copies |-> EmptyMap, log |-> <<>>,
             order |-> order],
     defs |-> EmptyMap, phinodes |-> EmptyMap, walk |-> <<>>, stack |-> <<>>]

\* self._init_variable_defs(head)
Step_init_variable_defs(I, head) ==
    LET r == _init_variable_defs(head, I.st, I.defs)
    IN  [I EXCEPT !.st = r.st, !.defs = r.defs]

\* self._place_phi(head), the class attribute _phi_cache being cache
Step_place_phi(I, head, cache) ==
    [I EXCEPT !.phinodes = _place_phi(head, I.defs, I.phinodes, cache)]

\* the class attribute after self._place_phi(head)
CacheAfterPlace(I, head, cache) ==
    IF \E v \in DOMAIN I.defs : PlaceVariable(head, I.defs, v).done # {}
    THEN PhiCacheAfter(CHOOSE v \in DOMAIN I.defs : TRUE, cache)
    ELSE cache

\* self._rename(head), up to the loop
Step_rename_enter(I, head) ==
    [I EXCEPT !.walk = walk_depth_first_forward(ira, head, <<head>>, {}),
              !.stack = <<I.st.rhs>>]

\* self._rename(head): one iteration of the loop over the dominator tree
Step_rename_block(I, head) ==
    LET block_label == Head(I.walk)
        restored == RestoreStack(I.stack, I.st.rhs)
        p == _rename_phi_lhs(block_label, I.phinodes, restored, I.st.lhs,
                             I.st.order)
        st == _rename_expressions(block_label,
                                  [I.st EXCEPT !.rhs = p.rhs, !.lhs = p.lhs])
        children == DomChildren(ira, head, block_label)
    IN  [I EXCEPT !.st = st,
                  !.phinodes = PhiRhsLoop(SortedSeq(successors(ira, block_label)),
                                          p.phinodes, st.rhs, I.st.order),
                  !.stack = SubSeq(I.stack, 1, Len(I.stack) - 1)
                            \o [i \in 1..Cardinality(children) |-> st.rhs],
                  !.walk = Tail(I.walk)]

\* self._rename(head): the loop
RECURSIVE Step_rename_loop(_, _)
Step_rename_loop(I, head) ==
    IF I.walk = <<>> THEN I
    ELSE Step_rename_loop(Step_rename_block(I, head), head)

\* self._insert_phi()
Step_insert_phi(I) ==
    [I EXCEPT !.st = [@ EXCEPT !.ex = _insert_phi(I.phinodes, @)]]

\* self._convert_phi()
Step_convert_phi(I) == [I EXCEPT !.st = _convert_phi(I.phinodes, @)]

\* SSADiGraph(ira).transform(head) with no other instance at work: what
\* the caller reads afterwards
TransformAlone(irs, head) ==
    LET I1 == Step_place_phi(
                  Step_init_variable_defs(NewInstance(irs, ira.dissect), head),
                  head, EmptyMap)
        I2 == Step_rename_loop(Step_rename_enter(I1, head), head)
        I3 == Step_convert_phi(Step_insert_phi(I2))
    IN  Result(I3.st, I3.phinodes)

\* CFGs given to the two instances: both IRAs have the shape of g
ParGraphs ==
    { Cfg(3, {<<1, 2>>, <<1, 3>>, <<2, 3>>}),
      Cfg(3, {<<1, 2>>, <<2, 2>>, <<2, 3>>}) }

InitPar ==
    /\ cls = "SSADiGraph"
    /\ ira \in UNION {{[n |-> g.n, edges |-> g.edges, irs |-> irs,
                           dissect |-> order] :
                          irs \in [1..g.n -> {BlkPar, BlkMem}],
                          order \in DissectOrders} : g \in ParGraphs}
    /\ InitInstance
    /\ InitReassemble
    /\ \E irs \in [Nodes(ira) -> {BlkPar, BlkSeq}] :
           other = [pc |-> "idle", irs |-> irs,
                    I |-> NewInstance(irs, ira.dissect),
                    seen |-> EmptyMap, met |-> FALSE, overlap |-> FALSE]

\* the first instance is inside its transform
Busy == pc \notin {"idle", "done"}

\* a step of the second instance: its fields and its position change, the
\* fields of the first instance do not
OtherStep(I, to) ==
    /\ other' = [other EXCEPT !.I = I, !.pc = to,
                              !.overlap = @ \/ (Busy /\ other.pc # "idle")]
    /\ UNCHANGED <<cls, ira, heap, blocks, expressions, _stack_rhs, _stack_lhs,
                   defs, _phinodes, pc, arg, run, fresh, clean, walk, stack, log,
                   copies, first, r_expr, r_todo, r_pc, r_calls, r_seen, r_steps,
                   r_res, scope>>

\* second instance, transform(head): self._init_variable_defs(head)
Other_InitVariableDefs ==
    /\ other.pc = "idle"
    /\ OtherStep(Step_init_variable_defs(other.I, 1), "place_phi")
    /\ UNCHANGED _phi_cache

\* second instance, _gen_empty_phi: "variable.size not in cls._phi_cache"
\* is evaluated
Other_GenEmptyPhiTest ==
    /\ other.pc = "place_phi"
    /\ other' = [other EXCEPT !.seen = _phi_cache, !.pc = "place_phi_set",
                              !.met = _phi_cache # EmptyMap,
                              !.overlap = @ \/ Busy]
    /\ UNCHANGED <<cls, ira, heap, blocks, expressions, _stack_rhs, _stack_lhs,
                   defs, _phinodes, pc, arg, run, fresh, clean, walk, stack, log,
                   copies, first, r_expr, r_todo, r_pc, r_calls, r_seen, r_steps,
                   r_res, _phi_cache, scope>>

\* second instance, the rest of self._place_phi(head): the class attribute is
\* written if the test found the size missing
Other_PlacePhi ==
    /\ other.pc = "place_phi_set"
    /\ LET written == CacheAfterPlace(other.I, 1, other.seen)
           cache == [s \in DOMAIN written \ DOMAIN other.seen |-> written[s]]
                    @@ _phi_cache
       IN  /\ _phi_cache' = cache
           /\ OtherStep(Step_place_phi(other.I, 1, cache), "rename")

\* second instance, self._rename(head) up to the loop
Other_RenameEnter ==
    /\ other.pc = "rename"
    /\ OtherStep(Step_rename_enter(other.I, 1), "walk")
    /\ UNCHANGED _phi_cache

\* second instance, self._rename(head): one iteration of the loop
Other_RenameBlock ==
    /\ other.pc = "walk"
    /\ other.I.walk # <<>>
    /\ OtherStep(Step_rename_block(other.I, 1),
                 IF Tail(other.I.walk) = <<>> THEN "insert_phi" ELSE "walk")
    /\ UNCHANGED _phi_cache

\* second instance, self._insert_phi()
Other_InsertPhi ==
    /\ other.pc = "insert_phi"
    /\ OtherStep(Step_insert_phi(other.I), "convert_phi")
    /\ UNCHANGED _phi_cache

\* second instance, self._convert_phi()
Other_ConvertPhi ==
    /\ other.pc = "convert_phi"
    /\ OtherStep(Step_convert_phi(other.I), "done")
    /\ UNCHANGED _phi_cache

\* the first instance makes one transform
NextPar ==
    \/ (run = 0 /\ InitVariableDefs)
    \/ PlacePhi
    \/ RenameEnter
    \/ RenameBlock
    \/ InsertPhi
    \/ ConvertPhi
    \/ Other_InitVariableDefs
    \/ Other_GenEmptyPhiTest
    \/ Other_PlacePhi
    \/ Other_RenameEnter
    \/ Other_RenameBlock
    \/ Other_InsertPhi
    \/ Other_ConvertPhi

SpecPar == InitPar /\ [][NextPar]_vars

Next ==
    \/ SSABlock_transform
    \/ SSAPath_transform
    \/ InitVariableDefs
    \/ PlacePhi
    \/ RenameEnter
    \/ RenameBlock
    \/ InsertPhi
    \/ ConvertPhi
    \/ Reset
    \/ GetBlock

Spec == Init /\ [][Next]_vars

(***************************************************************************)
(* Properties                                                              *)
(***************************************************************************)
\* the list of AssignBlocks of the SSA block of label b
BlockIrs(b) == heap[blocks[b]]

\* the blocks that the transforms have renamed
Transformed == {log[n].label : n \in 1..Len(log)}

\* of what a caller reads, the blocks that the transforms have renamed
Renamed(r) ==
    [r EXCEPT !.blocks = [b \in Transformed \cap DOMAIN r.blocks |-> r.blocks[b]]]

\* the places <<b, i, j>> of the assignments of the renamed SSA blocks
Occ ==
    UNION {UNION {{<<b, i, j>> : j \in 1..Len(BlockIrs(b)[i])} :
                  i \in 1..Len(BlockIrs(b))} :
           b \in Transformed}

DstAt(p) == BlockIrs(p[1])[p[2]][p[3]].dst

SrcAt(p) == BlockIrs(p[1])[p[2]][p[3]].src

IdOcc == {p \in Occ : IsExprId(DstAt(p))}

Version(e) == e[1].v[Len(e[1].v)]

IsVersioned(e) == IsExprId(e) /\ e[1].v # <<>>

\* C1: after a transform on a fresh or reset instance no identifier is the
\* destination of two assignments (body and phi assignments of all blocks
\* together), every identifier destination is versioned, and the versions
\* of the destinations of a base are exactly 0 .. counter - 1: each took
\* the counter, which went up by one each time and never down
C1_SingleAssignment ==
    (pc = "done" /\ clean) =>
        /\ \A p, q \in IdOcc : DstAt(p) = DstAt(q) => p = q
        /\ \A p \in IdOcc :
               /\ IsVersioned(DstAt(p))
               /\ reverse_variable(DstAt(p)) \in DOMAIN _stack_lhs
        /\ \A v \in DOMAIN _stack_lhs :
               {Version(DstAt(p)) :
                   p \in {q \in IdOcc : reverse_variable(DstAt(q)) = v}}
               = 0..(_stack_lhs[v] - 1)

\* a graph transform is done in which a block has a phi function and the
\* reaching version of a variable was restored below its newest version
C1_Witness ==
    /\ pc = "done" /\ clean /\ cls = "SSADiGraph"
    /\ _phinodes # EmptyMap
    /\ \E v \in DOMAIN _stack_rhs :
           _stack_lhs[v] >= 3 /\ _stack_rhs[v] + 1 < _stack_lhs[v]

\* the renamed form of the identifier v under the reaching-version map rhs
Reaching(v, rhs) ==
    IF v \in DOMAIN rhs THEN <<[v[1] EXCEPT !.v = Append(@, rhs[v])]>> ELSE v

\* the value of the counter of v in lhs
Counter(v, lhs) == IF v \in DOMAIN lhs THEN lhs[v] ELSE 0

\* the log record L is the renaming of { x <- x + 1, y <- x }, in either
\* order, with x at a version before it
IsParBlock(L) ==
    /\ {L.ins[i] : i \in 1..Len(L.ins)} = {BlkPar[1][1], BlkPar[1][2]}
    /\ X \in DOMAIN L.rhs

\* the identifiers created by the destinations of the log record L
Created(L) == {L.out[i].dst : i \in 1..Len(L.out)}

\* C2 (as amended): in every AssignBlock renamed, each source is the
\* original source with every identifier leaf replaced by the version that
\* reached the AssignBlock (unversioned if none), and no source holds an
\* identifier created by a destination of the same AssignBlock; for
\* { x <- x + 1, y <- x } with x at version k the output is
\* x.c <- x.k + 1 and y.j <- x.k, c and j being the counters of x and y
C2_ParallelSemantics ==
    \A n \in 1..Len(log) :
        LET L == log[n] IN
        /\ Len(L.out) = Len(L.ins)
        /\ \A i \in 1..Len(L.ins) :
               /\ Len(L.out[i].src) = Len(L.ins[i].src)
               /\ \A q \in 1..Len(L.ins[i].src) :
                      LET t == L.ins[i].src[q] IN
                      L.out[i].src[q] =
                          IF t.k = "id" THEN Reaching(<<t>>, L.rhs)[1] ELSE t
               /\ variables(L.out[i].src) \cap Created(L) = {}
        /\ IsParBlock(L) =>
               Created(L) =
                   { <<[X[1] EXCEPT !.v = <<Counter(X, L.lhs)>>]>>,
                     <<[Y[1] EXCEPT !.v = <<Counter(Y, L.lhs)>>]>> }
               /\ \A i \in 1..Len(L.out) :
                      L.out[i].src =
                          IF reverse_variable(L.out[i].dst) = X
                          THEN ExprOp("+", <<Reaching(X, L.rhs), ExprInt(1)>>)
                          ELSE Reaching(X, L.rhs)

\* C2 as claimed: for { x <- x + 1, y <- x } with x at version k the
\* destination of x is x.(k+1)
C2_Claimed ==
    \A n \in 1..Len(log) :
        IsParBlock(log[n]) =>
            <<[X[1] EXCEPT !.v = <<log[n].rhs[X] + 1>>]>> \in Created(log[n])

\* { y <- x, x <- x + 1 } was renamed with x at a version, in a block whose
\* dominator-tree sibling had taken a version of x in between
C2_Witness ==
    \E n \in 1..Len(log) :
        /\ IsParBlock(log[n])
        /\ log[n].ins[1].dst = Y
        /\ log[n].lhs[X] > log[n].rhs[X] + 1

\* the phi functions after a graph transform: <<b, dst>>
Phis == UNION {{<<b, dst>> : dst \in DOMAIN _phinodes[b]} : b \in DOMAIN _phinodes}

\* number of operands of the phi function of dst in block b
PhiArity(b, dst) == NArgs(_phinodes[b][dst][1])

\* C3 (as amended): after SSADiGraph.transform(head) the operand count of
\* every phi function equals the number of CFG predecessors of its block
\* that are reachable from head
C3_PhiArity ==
    (pc = "done" /\ clean /\ cls = "SSADiGraph") =>
        \A p \in Phis :
            PhiArity(p[1], p[2]) =
                Cardinality(predecessors(ira, p[1]) \cap Reach(ira, arg[1]))

\* C3 as claimed: the operand count equals the number of CFG predecessors
C3_Claimed ==
    (pc = "done" /\ clean /\ cls = "SSADiGraph") =>
        \A p \in Phis :
            PhiArity(p[1], p[2]) = Cardinality(predecessors(ira, p[1]))

\* a graph transform is done, a block with a self-loop and a predecessor
\* that head does not reach has a phi function, and head has a phi function
\* filled from a back edge
C3_Witness ==
    /\ pc = "done" /\ clean /\ cls = "SSADiGraph"
    /\ \E p \in Phis :
           /\ p[1] \in predecessors(ira, p[1])
           /\ predecessors(ira, p[1]) \ Reach(ira, arg[1]) # {}
           /\ PhiArity(p[1], p[2]) = 2

\* head has predecessors and a phi function, filled from the back edges
C3_WitnessHead ==
    /\ pc = "done" /\ clean /\ cls = "SSADiGraph"
    /\ \E p \in Phis : p[1] = arg[1] /\ PhiArity(p[1], p[2]) >= 1

\* C4 as claimed: an assignment to IRDst or to the program counter keeps
\* its destination unversioned, no counter and no reaching version is
\* created for them, and no phi function is placed for them
C4_Claimed ==
    /\ \A p \in IdOcc :
           reverse_variable(DstAt(p)) \in instruction_pointer
               => ~IsVersioned(DstAt(p))
    /\ instruction_pointer \cap (DOMAIN _stack_lhs \cup DOMAIN _stack_rhs) = {}
    /\ \A p \in Phis : reverse_variable(p[2]) \notin instruction_pointer

\* the blocks of the dominator-tree path from head to b, b included
DomPath(b) == {d \in Nodes(ira) : Dominates(ira, arg[1], d, b)}

\* the log records of the body of block b
BodyLog(b) == {n \in 1..Len(log) : log[n].label = b}

\* the identifier e is defined before AssignBlock index of block b: by a
\* phi function of b or of a block that dominates b, by an earlier
\* AssignBlock of b, or by an AssignBlock of a block that strictly dominates b
DefinedBefore(e, b, index) ==
    \/ \E d \in DomPath(b) : d \in DOMAIN _phinodes /\ e \in DOMAIN _phinodes[d]
    \/ \E n \in BodyLog(b) : log[n].index < index /\ e \in Created(log[n])
    \/ \E d \in DomPath(b) \ {b} : \E n \in BodyLog(d) : e \in Created(log[n])

\* the block of the IRA defines v in an AssignBlock before index
TextualDef(v, b, index) ==
    \E i \in 1..Len(ira.irs[b]) :
        /\ i < index
        /\ \E j \in 1..Len(ira.irs[b][i]) : ira.irs[b][i][j].dst = v

\* a definition of v lies on the dominator-tree path from head to
\* AssignBlock index of block b
DefOnPath(v, b, index) ==
    \/ \E d \in DomPath(b) : d \in DOMAIN _phinodes
           /\ \E e \in DOMAIN _phinodes[d] : reverse_variable(e) = v
    \/ TextualDef(v, b, index)
    \/ \E d \in DomPath(b) \ {b} : TextualDef(v, d, Len(ira.irs[d]) + 1)

\* C5: after SSADiGraph.transform(head) every versioned identifier in the
\* source of a body assignment of block b is the destination of a phi or
\* body assignment earlier in b or in a block that dominates b, and a use
\* of v with no definition of v on the dominator-tree path from head to
\* the use is left unversioned
C5_ReachingDef ==
    (pc = "done" /\ clean /\ cls = "SSADiGraph") =>
        \A n \in 1..Len(log) :
            LET L == log[n] IN
            \A i \in 1..Len(L.out) :
                /\ \A e \in variables(L.out[i].src) :
                       IsVersioned(e) => DefinedBefore(e, L.label, L.index)
                /\ \A q \in 1..Len(L.ins[i].src) :
                       LET t == L.ins[i].src[q] IN
                       (t.k = "id" /\ ~DefOnPath(<<t>>, L.label, L.index))
                           => L.out[i].src[q] = t

\* a graph transform is done in which a block reads a version defined in a
\* strictly dominating block while a dominator-tree sibling defined a later
\* version, and another use was left unversioned
C5_Witness ==
    /\ pc = "done" /\ clean /\ cls = "SSADiGraph"
    /\ \E n \in 1..Len(log) : \E i \in 1..Len(log[n].out) :
           \E e \in variables(log[n].out[i].src) :
               /\ IsVersioned(e)
               /\ \E d \in DomPath(log[n].label) \ {log[n].label} :
                      \E m \in BodyLog(d) : e \in Created(log[m])
               /\ \E m \in 1..Len(log) :
                      /\ m < n
                      /\ ~Dominates(ira, arg[1], log[m].label, log[n].label)
                      /\ \E f \in Created(log[m]) :
                             /\ IsExprId(f)
                             /\ reverse_variable(f) = reverse_variable(e)
    /\ \E n \in 1..Len(log) : \E i \in 1..Len(log[n].out) :
           \E e \in variables(log[n].out[i].src) : ~IsVersioned(e)

\* dominance frontier of a set of blocks
DF(S) == UNION {compute_dominance_frontier(ira, arg[1], b) : b \in S}

\* iterated dominance frontier of S: the least P with P = DF(S \cup P)
RECURSIVE IDFFrom(_, _)
IDFFrom(S, P) ==
    LET Q == DF(S \cup P) IN IF Q = P THEN P ELSE IDFFrom(S, Q)

IDF(S) == IDFFrom(S, {})

\* the blocks that hold a phi function for the variable v
PhiBlocks(v) == {b \in DOMAIN _phinodes : v \in DOMAIN _phinodes[b]}

\* C6: after _place_phi the blocks that hold an empty phi function for v
\* are exactly the iterated dominance frontier of defs[v], a phi function
\* is the empty marker, and the worklist of v made at most one iteration
\* per block of the CFG
C6_MinimalPlacement ==
    (pc = "rename" /\ clean) =>
        \A v \in DOMAIN defs :
            /\ PhiBlocks(v) = IDF(defs[v])
            /\ \A b \in PhiBlocks(v) : _phinodes[b][v] = ExprId("phi")
            /\ PlaceVariable(arg[1], defs, v).pops
                   <= Cardinality(Reach(ira, arg[1]))

\* phi functions were placed for a variable whose iterated dominance
\* frontier is larger than the dominance frontier of its definitions
C6_Witness ==
    /\ pc = "rename" /\ clean
    /\ \E v \in DOMAIN defs :
           /\ DF(defs[v]) # IDF(defs[v])
           /\ PhiBlocks(v) # {}

\* C9: reset() empties blocks, expressions, the version counters, the
\* reaching-version map, defs and the phi functions (after it blocks holds
\* nothing but the untouched copies that a client obtained since), and the
\* transform made after it with the argument of the first one yields the
\* renamed blocks, expressions and phi functions of the first one
C9_ResetTransform ==
    /\ (pc = "idle" /\ run = 1) =>
           /\ \A b \in DOMAIN blocks : BlockIrs(b) = ira.irs[b] /\ copies[b] = 1
           /\ Cardinality(DOMAIN blocks) <= MaxGets
           /\ expressions = EmptyMap
           /\ _stack_lhs = EmptyMap /\ _stack_rhs = EmptyMap
           /\ defs = EmptyMap /\ _phinodes = EmptyMap
    /\ (pc = "done" /\ run = 2 /\ clean) =>
           Renamed(Result(St, _phinodes)) = Renamed(first)

\* transform(h); reset(); transform(h) was made on a graph, with phi
\* functions and a variable that has three versions or more
C9_Witness ==
    /\ pc = "done" /\ run = 2 /\ clean /\ cls = "SSADiGraph"
    /\ first.phinodes # EmptyMap
    /\ \E v \in DOMAIN _stack_lhs : _stack_lhs[v] >= 3

\* C10: no step of a transform changes a block of the IRA; a block is
\* copied once, on its first access, self.blocks holds the copy, and what
\* the steps write is in the copy
C10_OriginalUntouched ==
    /\ \A b \in Nodes(ira) : heap[Ira(b)] = ira.irs[b]
    /\ \A b \in DOMAIN blocks : blocks[b] = Ssa(b) /\ copies[b] = 1
    /\ (pc = "done" /\ clean) =>
           \A b \in DOMAIN blocks :
               Len(BlockIrs(b)) =
                   Len(ira.irs[b]) + (IF b \in DOMAIN _phinodes THEN 1 ELSE 0)

\* a graph transform is done, renamed AssignBlocks and the AssignBlock of
\* the phi functions were written into the copy of a block
C10_Witness ==
    /\ pc = "done" /\ clean /\ cls = "SSADiGraph"
    /\ \E b \in DOMAIN _phinodes :
           /\ copies[b] = 1
           /\ Len(BlockIrs(b)) = Len(ira.irs[b]) + 1
           /\ BlockIrs(b)[2] # ira.irs[b][1]

\* C7 as claimed: the worklist of reassemble_expr processes each name at
\* most once, so a call makes no more iterations than expressions has keys
C7_Claimed ==
    /\ \A cur \in DOMAIN r_seen : r_seen[cur] <= 1
    /\ r_steps <= Cardinality(DOMAIN expressions)

\* C8 as claimed: reassemble_expr(e) returns for every expression e, also
\* for one that is no key of expressions, and reassemble_expr of what it
\* returned returns the same expression
C8_Claimed ==
    /\ r_pc # "KeyError"
    /\ (r_calls = 2 /\ r_pc = "returned") => r_expr = r_res

\* C11 as claimed: a transform called on an instance that has run a
\* transform and was not reset ends with an error, and the blocks, the
\* expressions and the phi functions stay those of the first transform
C11_Claimed ==
    (run = 2 /\ ~clean) =>
        /\ pc = "Reentrancy"
        /\ Renamed(Result(St, _phinodes)) = Renamed(first)

\* the operands of the phi function of dst in block b
PhiArgs(b, dst) == Args(_phinodes[b][dst])

\* the predecessors of block b that are reachable from head and at whose end
\* no definition of v lies on the dominator-tree path from head
PredsWithoutDef(v, b) ==
    {P \in predecessors(ira, b) \cap Reach(ira, arg[1]) :
        ~DefOnPath(v, P, Len(ira.irs[P]) + 1)}

\* C12 (as amended): after SSADiGraph.transform(head) every phi assignment
\* has a versioned destination and each operand is an identifier of the
\* base variable of the destination, versioned below the counter of the
\* base or left unversioned; the unversioned operands are as many as the
\* predecessors at whose end no definition of the variable reaches
C12_PhiOperands ==
    (pc = "done" /\ clean /\ cls = "SSADiGraph") =>
        \A p \in Phis :
            LET v == reverse_variable(p[2])
                args == PhiArgs(p[1], p[2])
            IN  /\ IsVersioned(p[2])
                /\ Len(p[2][1].v) = 1
                /\ _phinodes[p[1]][p[2]][1] = Tok("op", "phi", <<>>, Len(args))
                /\ \A i \in 1..Len(args) :
                       /\ IsExprId(args[i])
                       /\ reverse_variable(args[i]) = v
                       /\ IsVersioned(args[i]) =>
                              /\ Len(args[i][1].v) = 1
                              /\ Version(args[i]) < _stack_lhs[v]
                /\ Cardinality({i \in 1..Len(args) : ~IsVersioned(args[i])})
                       = Cardinality(PredsWithoutDef(v, p[1]))

\* C12 as claimed: every operand of a phi function is a versioned name
C12_Claimed ==
    (pc = "done" /\ clean /\ cls = "SSADiGraph") =>
        \A p \in Phis :
            \A i \in 1..Len(PhiArgs(p[1], p[2])) :
                IsVersioned(PhiArgs(p[1], p[2])[i])

\* a graph transform is done and a phi function has a versioned operand and
\* an unversioned one, from a predecessor that no definition reaches
C12_Witness ==
    /\ pc = "done" /\ clean /\ cls = "SSADiGraph"
    /\ \E p \in Phis :
           /\ \E i \in 1..Len(PhiArgs(p[1], p[2])) :
                  IsVersioned(PhiArgs(p[1], p[2])[i])
           /\ \E i \in 1..Len(PhiArgs(p[1], p[2])) :
                  ~IsVersioned(PhiArgs(p[1], p[2])[i])
           /\ PredsWithoutDef(reverse_variable(p[2]), p[1]) # {}

\* the log records before record n that hold a definition of the variable v
DefsBefore(v, n) ==
    {m \in 1..(n - 1) : \E j \in 1..Len(log[m].ins) : log[m].ins[j].dst = v}

\* the name that the most recent definition of v before log record n
\* created, v itself if there is none
LastVersion(v, n) ==
    IF DefsBefore(v, n) = {} THEN v
    ELSE LET m == CHOOSE a \in DefsBefore(v, n) : \A b \in DefsBefore(v, n) : b <= a
         IN  CHOOSE e \in Created(log[m]) : IsExprId(e) /\ reverse_variable(e) = v

\* the labels of the path of the running transform
PathOf == IF cls = "SSABlock" THEN arg ELSE arg[1]

\* the AssignBlocks <<label, index>> of the blocks of a path, in order
RECURSIVE PathOrder(_)
PathOrder(path) ==
    IF path = <<>> THEN <<>>
    ELSE [i \in 1..Len(ira.irs[Head(path)]) |-> <<Head(path), i>>]
         \o PathOrder(Tail(path))

\* x.0 <- 1 ; x.1 <- x.0 + 2 ; y.0 <- x.1
SsaOfBlkSeq ==
    LET x0 == <<[X[1] EXCEPT !.v = <<0>>]>>
        x1 == <<[X[1] EXCEPT !.v = <<1>>]>>
        y0 == <<[Y[1] EXCEPT !.v = <<0>>]>>
    IN  << <<Aff(x0, ExprInt(1))>>,
           <<Aff(x1, ExprOp("+", <<x0, ExprInt(2)>>))>>,
           <<Aff(y0, x1)>> >>

\* C13: SSABlock.transform and SSAPath.transform rename the AssignBlocks in
\* the order of the path and carry counters and reaching versions from one
\* block to the next: every use of v is renamed to the name created by the
\* most recent definition of v in an earlier AssignBlock of the block or of
\* an earlier block of the path, and stays unversioned if there is none;
\* x <- 1 ; x <- x + 2 ; y <- x becomes x.0 <- 1 ; x.1 <- x.0 + 2 ; y.0 <- x.1
C13_PathThreading ==
    (pc = "done" /\ clean /\ cls \in {"SSABlock", "SSAPath"}) =>
        /\ [n \in 1..Len(log) |-> <<log[n].label, log[n].index>>] = PathOrder(PathOf)
        /\ \A n \in 1..Len(log) : \A i \in 1..Len(log[n].ins) :
               /\ Len(log[n].out[i].src) = Len(log[n].ins[i].src)
               /\ \A q \in 1..Len(log[n].ins[i].src) :
                      LET t == log[n].ins[i].src[q] IN
                      t.k = "id" => <<log[n].out[i].src[q]>> = LastVersion(<<t>>, n)
        /\ ira.irs[PathOf[1]] = BlkSeq => BlockIrs(PathOf[1]) = SsaOfBlkSeq

\* a path of two blocks was transformed, the first one is
\* x <- 1 ; x <- x + 2 ; y <- x, and a use in the second block took a
\* version that the first block created
C13_Witness ==
    /\ pc = "done" /\ clean /\ cls = "SSAPath"
    /\ Len(PathOf) = 2
    /\ ira.irs[PathOf[1]] = BlkSeq
    /\ \E n \in 1..Len(log) : \E m \in 1..(n - 1) :
           /\ log[m].label # log[n].label
           /\ \E i \in 1..Len(log[n].out) :
                  variables(log[n].out[i].src) \cap Created(log[m]) # {}

\* what the shared _phi_cache leaves intact: every write puts the same value
\* for a size, and whatever the interleaving of the steps of the two
\* transforms, each instance ends with the blocks, expressions and phi
\* functions of its transform made alone
C14_Isolation ==
    /\ \A s \in DOMAIN _phi_cache : _phi_cache[s] = ExprId("phi")
    /\ (pc = "done") => Result(St, _phinodes) = TransformAlone(ira.irs, arg[1])
    /\ (other.pc = "done") =>
           Result(other.I.st, other.I.phinodes) = TransformAlone(other.irs, 1)

\* C14 as claimed: two SSADiGraph instances share no mutable state: no step
\* of an instance reads a variable that a step of the other instance wrote
C14_Claimed == ~other.met

\* both transforms are done, their steps were interleaved, the second
\* instance read _phi_cache after the first one had written it, and both
\* instances hold phi functions, on different blocks
C14_Witness ==
    /\ pc = "done" /\ other.pc = "done"
    /\ other.overlap /\ other.met
    /\ _phinodes # EmptyMap /\ other.I.phinodes # EmptyMap
    /\ ira.irs # other.irs

\* C15: in _rename the list of saved maps is not empty when a block is
\* about to pop it; the map on top is the one that the dominator-tree
\* parent of that block left at the end of its own processing; every block
\* other than head was restored to that map, whatever was processed in
\* between; and the list is empty when the walk is over
C15_ScopeDiscipline ==
    /\ (pc = "walk" /\ walk # <<>>) =>
           /\ stack # <<>>
           /\ Head(walk) # arg[1] =>
                  /\ Idom(ira, arg[1], Head(walk)) \in DOMAIN scope
                  /\ stack[Len(stack)] = scope[Idom(ira, arg[1], Head(walk))].end
    /\ (pc \in {"walk", "insert_phi", "convert_phi", "done"} /\ cls = "SSADiGraph") =>
           \A B \in DOMAIN scope \ {arg[1]} :
               scope[B].restored = scope[Idom(ira, arg[1], B)].end
    /\ pc = "insert_phi" => stack = <<>>

\* a block was restored to the map of its parent after a sibling and a
\* child of that sibling had been processed, and the child had left
\* another map
C15_Witness ==
    /\ pc = "insert_phi"
    /\ \E B, S, D \in DOMAIN scope :
           /\ B # arg[1] /\ S # B /\ S # arg[1] /\ D # arg[1]
           /\ Idom(ira, arg[1], S) = Idom(ira, arg[1], B)
           /\ Idom(ira, arg[1], D) = S
           /\ scope[S].n < scope[D].n /\ scope[D].n < scope[B].n
           /\ scope[D].end # scope[B].restored
           /\ scope[S].end # scope[B].restored

IsMemAff(aff) == IsExprMem(aff.dst)

IsIdAff(aff) == ~IsExprMem(aff.dst)

RECURSIVE Reverse(_)
Reverse(seq) == IF seq = <<>> THEN <<>> ELSE Append(Reverse(Tail(seq)), Head(seq))

\* the AssignBlock of the IRA that the log record L is the renaming of
OriginalOf(L) == ira.irs[L.label][L.index]

\* C16 (as amended): _parallel_instructions returns the memory-destination
\* assignments first, in the reverse of the order in which the AssignBlock
\* yields them, and the identifier-destination assignments after them, in
\* the order in which the AssignBlock yields them
C16_ParallelOrder ==
    clean =>
        \A n \in 1..Len(log) :
            log[n].ins = Reverse(SelectSeq(OriginalOf(log[n]), IsMemAff))
                         \o SelectSeq(OriginalOf(log[n]), IsIdAff)

\* C16 as claimed: the assignments of each group keep the order in which
\* the AssignBlock yields them
C16_Claimed ==
    clean =>
        \A n \in 1..Len(log) :
            log[n].ins = SelectSeq(OriginalOf(log[n]), IsMemAff)
                         \o SelectSeq(OriginalOf(log[n]), IsIdAff)

\* an AssignBlock with two memory destinations and an identifier
\* destination between them was renamed
C16_Witness ==
    /\ clean
    /\ \E n \in 1..Len(log) :
           LET ab == OriginalOf(log[n])
           IN  /\ Len(SelectSeq(ab, IsMemAff)) >= 2
               /\ \E i, j, k \in 1..Len(ab) :
                      /\ i < j /\ j < k
                      /\ IsMemAff(ab[i]) /\ IsIdAff(ab[j]) /\ IsMemAff(ab[k])
               /\ log[n].ins[1] = ab[Len(ab)]

\* the variable v is an identifier destination of the log record L
IsIdDst(v, L) == \E i \in 1..Len(L.ins) : L.ins[i].dst = v

\* the log record L is the renaming of { @[x] <- y, x <- x + 4, @[y] <- x }
\* with x at a version before it
IsMemBlock(L) ==
    /\ {L.ins[i] : i \in 1..Len(L.ins)} = {BlkMem[2][i] : i \in 1..3}
    /\ X \in DOMAIN L.rhs

\* C17: renaming a memory destination changes neither the version counters
\* nor the reaching-version map (an AssignBlock changes them for its
\* identifier destinations only), and the identifiers of the address are
\* renamed with the versions that reached the AssignBlock, never with one
\* that an identifier destination of the same AssignBlock created; for
\* { @[x] <- y, x <- x + 4, ... } with x at version k the store is to @[x.k]
C17_MemoryDst ==
    \A n \in 1..Len(log) :
        LET L == log[n] IN
        /\ \A i \in 1..Len(L.ins) :
               IsMemAff(L.ins[i]) =>
                   /\ Len(L.out[i].dst) = Len(L.ins[i].dst)
                   /\ \A q \in 1..Len(L.ins[i].dst) :
                          LET t == L.ins[i].dst[q] IN
                          L.out[i].dst[q] =
                              IF t.k = "id" THEN Reaching(<<t>>, L.rhs)[1] ELSE t
                   /\ variables(L.out[i].dst)
                          \cap {e \in Created(L) : IsExprId(e)} = {}
        /\ \A v \in DOMAIN L.lhs_out \cup DOMAIN L.rhs_out :
               IF IsIdDst(v, L)
               THEN /\ L.lhs_out[v] = Counter(v, L.lhs) + 1
                    /\ L.rhs_out[v] = Counter(v, L.lhs)
               ELSE /\ v \in DOMAIN L.lhs => (v \in DOMAIN L.lhs_out /\ L.lhs_out[v] = L.lhs[v])
                    /\ v \in DOMAIN L.lhs_out => v \in DOMAIN L.lhs
                    /\ v \in DOMAIN L.rhs => (v \in DOMAIN L.rhs_out /\ L.rhs_out[v] = L.rhs[v])
                    /\ v \in DOMAIN L.rhs_out => v \in DOMAIN L.rhs
        /\ IsMemBlock(L) => ExprMem(Reaching(X, L.rhs)) \in Created(L)

\* { @[x] <- y, x <- x + 4, @[y] <- x } was renamed with x and y at a
\* version: the address of a store holds an identifier that the same
\* AssignBlock also assigns
C17_Witness ==
    \E n \in 1..Len(log) :
        /\ IsMemBlock(log[n])
        /\ Y \in DOMAIN log[n].rhs
        /\ log[n].lhs_out[X] = log[n].lhs[X] + 1
        /\ log[n].lhs_out[Y] = log[n].lhs[Y]

\* the operand that predecessor P gives to a phi function of v: v renamed
\* with the reaching-version map at the end of the processing of P
OperandOf(v, P) == Reaching(v, scope[P].end)

\* C18 (as amended): after SSADiGraph.transform(head) the operands of the
\* phi function of v in block S are, as a multiset, one operand per CFG
\* predecessor P of S that is reachable from head, equal to v renamed with
\* the reaching-version map at the end of the processing of P (after the
\* phi destinations and the body of P were renamed; v itself if the map
\* has no version of v); this holds for the predecessors processed before
\* S and for those processed after it
C18_PhiOperandMultiset ==
    (pc = "done" /\ clean /\ cls = "SSADiGraph") =>
        \A p \in Phis :
            LET v == reverse_variable(p[2])
                args == PhiArgs(p[1], p[2])
                preds == predecessors(ira, p[1]) \cap Reach(ira, arg[1])
            IN  /\ preds \subseteq DOMAIN scope
                /\ \A e \in {args[i] : i \in 1..Len(args)}
                            \cup {OperandOf(v, P) : P \in preds} :
                       Cardinality({i \in 1..Len(args) : args[i] = e})
                           = Cardinality({P \in preds : OperandOf(v, P) = e})

\* C18 as claimed: every CFG predecessor of the block of a phi function
\* was processed and gave one operand
C18_Claimed ==
    (pc = "done" /\ clean /\ cls = "SSADiGraph") =>
        \A p \in Phis :
            /\ predecessors(ira, p[1]) \subseteq DOMAIN scope
            /\ Len(PhiArgs(p[1], p[2])) = Cardinality(predecessors(ira, p[1]))

\* a phi function has an operand from a predecessor processed before its
\* block and another operand from a predecessor processed after it
C18_Witness ==
    /\ pc = "done" /\ clean /\ cls = "SSADiGraph"
    /\ \E p \in Phis : \E P1, P2 \in predecessors(ira, p[1]) \cap DOMAIN scope :
           /\ scope[P1].n < scope[p[1]].n
           /\ scope[p[1]].n < scope[P2].n
           /\ OperandOf(reverse_variable(p[2]), P1)
                  # OperandOf(reverse_variable(p[2]), P2)
           /\ IsVersioned(OperandOf(reverse_variable(p[2]), P1))

\* an AssignBlock of block B before index defines the variable v
BodyDefBefore(v, B, index) ==
    \E m \in BodyLog(B) : log[m].index < index /\ IsIdDst(v, log[m])

\* C19: in a block B that has a phi function for v the phi destination took
\* its version before the body of B was renamed: every use of v in the
\* body of B that no body definition of v in B precedes is the phi
\* destination, and the version of the phi destination is smaller than the
\* version of every body definition of v in B
C19_PhiFirst ==
    (pc = "done" /\ clean /\ cls = "SSADiGraph") =>
        \A p \in Phis :
            LET v == reverse_variable(p[2]) IN
            \A n \in BodyLog(p[1]) :
                /\ \A i \in 1..Len(log[n].ins) :
                       \A q \in 1..Len(log[n].ins[i].src) :
                           (/\ <<log[n].ins[i].src[q]>> = v
                            /\ ~BodyDefBefore(v, p[1], log[n].index))
                               => <<log[n].out[i].src[q]>> = p[2]
                /\ \A e \in Created(log[n]) :
                       (IsExprId(e) /\ reverse_variable(e) = v)
                           => Version(p[2]) < Version(e)

\* a block that loops has a phi function for x, its body reads the phi
\* destination in x <- x + 1, and the version that the body defines is an
\* operand of the phi function
C19_Witness ==
    /\ pc = "done" /\ clean /\ cls = "SSADiGraph"
    /\ \E p \in Phis : \E n \in BodyLog(p[1]) :
           /\ p[1] \in successors(ira, p[1])
           /\ reverse_variable(p[2]) = X
           /\ IsParBlock(log[n])
           /\ \E i \in 1..Len(log[n].out) :
                  /\ reverse_variable(log[n].out[i].dst) = X
                  /\ log[n].out[i].src = ExprOp("+", <<p[2], ExprInt(1)>>)
                  /\ \E k \in 1..Len(PhiArgs(p[1], p[2])) :
                         PhiArgs(p[1], p[2])[k] = log[n].out[i].dst

\* the renamed AssignBlock index of block b, as _rename_expressions wrote it
RenamedBody(b, index) ==
    LET n == CHOOSE m \in BodyLog(b) : log[m].index = index IN log[n].out

\* the identifier destinations of an AssignBlock, without their versions
BaseDsts(ab) ==
    {reverse_variable(ab[j].dst) : j \in {k \in 1..Len(ab) : IsExprId(ab[k].dst)}}

\* C20: after the walk every block with phi functions has one AssignBlock
\* more than the block of the IRA, at index 0, that holds exactly the phi
\* assignments of the block, followed by the renamed body AssignBlocks in
\* their original order; a block without phi functions has as many
\* AssignBlocks as the block of the IRA; every phi assignment is in
\* expressions under its versioned destination
C20_Materialization ==
    (pc = "done" /\ clean /\ cls = "SSADiGraph") =>
        /\ \A b \in DOMAIN _phinodes : _phinodes[b] # EmptyMap /\ b \in DOMAIN blocks
        /\ \A b \in DOMAIN blocks :
               LET k == IF b \in DOMAIN _phinodes THEN 1 ELSE 0 IN
               /\ Len(BlockIrs(b)) = Len(ira.irs[b]) + k
               /\ k = 1 =>
                      /\ Len(BlockIrs(b)[1]) = Cardinality(DOMAIN _phinodes[b])
                      /\ {BlockIrs(b)[1][j] : j \in 1..Len(BlockIrs(b)[1])}
                             = {Aff(dst, _phinodes[b][dst]) : dst \in DOMAIN _phinodes[b]}
               /\ \A i \in 1..Len(ira.irs[b]) :
                      /\ b \in Transformed => BlockIrs(b)[i + k] = RenamedBody(b, i)
                      /\ Len(BlockIrs(b)[i + k]) = Len(ira.irs[b][i])
                      /\ BaseDsts(BlockIrs(b)[i + k]) = BaseDsts(ira.irs[b][i])
        /\ \A p \in Phis :
               /\ IsVersioned(p[2])
               /\ p[2] \in DOMAIN expressions
               /\ expressions[p[2]] = _phinodes[p[1]][p[2]]

\* a graph transform is done: one block has the AssignBlock of its two phi
\* functions before a body of two AssignBlocks or more, another block has
\* no phi function
C20_Witness ==
    /\ pc = "done" /\ clean /\ cls = "SSADiGraph"
    /\ \E b \in DOMAIN _phinodes :
           /\ Cardinality(DOMAIN _phinodes[b]) = 2
           /\ Len(BlockIrs(b)) >= 3
           /\ BlockIrs(b)[1][1].src[1].n = "phi"
    /\ DOMAIN blocks \ DOMAIN _phinodes # {}

====
